---- MODULE Spec2Model ----
(***************************************************************************)
(* Connectivity / lifecycle state machine of the NEPTUN CNC monitor       *)
(* firmware (src/MicroPython/main.py).                                     *)
(*                                                                         *)
(* Strings are sequences of one-character strings, so that split, strip,   *)
(* replace, startswith and int() are computed the way the firmware         *)
(* computes them.                                                          *)
(***************************************************************************)
EXTENDS Integers, Sequences, FiniteSets, TLC

VARIABLES
    DISPLAY_AVAILABLE,  \* main.py:25-31, outcome of "from writer import ..."
    MQTT_AVAILABLE,     \* main.py:17-22, outcome of "from umqtt.simple import ..."
    configFile,         \* contents of config.json on flash, or NoFile
    current_config,     \* main.py:41-49
    current_mode,       \* main.py:50
    wlan,               \* main.py:50, which interface object wlan holds
    dns_server,         \* main.py:50, TRUE when a DNSServer object exists
    dns_ip_address,     \* main.py:54, the DNSServer object's ip_address
    mqtt_client,        \* main.py:50, "None" | "created" | "connecting" | "connected"
    mqtt_timer,         \* main.py:50, TRUE when the periodic timer is armed
    last_status,        \* main.py:50
    pc,                 \* position of the control thread
    resetCause,         \* which machine.reset() call site was reached
    boot,               \* observation: what main() did on the latest boot
    tick,               \* observation: what step (a) of this iteration did
    http,               \* observation: the exchange handled in this iteration
    dns,                \* observation: the DNS cycle of the step just taken
    calls,              \* observation: the latest publish_mqtt_status calls
    sessionFresh,       \* observation: no publish call yet since the last connect
    roundTrip,          \* observation: config expected after the round-trip form
    nsub                \* number of form submissions handled so far

vars == <<DISPLAY_AVAILABLE, MQTT_AVAILABLE, configFile, current_config,
          current_mode, wlan, dns_server, dns_ip_address, mqtt_client,
          mqtt_timer, last_status, pc, resetCause, boot, tick, http, dns,
          calls, sessionFresh, roundTrip, nsub>>

-----------------------------------------------------------------------------
(* Bounds of the model                                                     *)

\* form submissions handled before the model stops accepting further ones
MaxSubmissions == 1

-----------------------------------------------------------------------------
(* String literals of the source                                           *)

S_nepiot == <<"n", "e", "p", "i", "o", "t">>
S_iotneptun == <<"i", "o", "t", "n", "e", "p", "t", "u", "n">>
S_broker == <<"1", "0", ".", "4", "8", ".", "4", "8", ".", "1", "6", "6">>
S_topic == <<"c", "n", "c", "1", "/", "s", "t", "a", "t", "u", "s">>
S_GET == <<"G", "E", "T">>

\* the keys of current_config, as the characters a query string spells them with
KeyChars ==
    [ssid          |-> <<"s", "s", "i", "d">>,
     password      |-> <<"p", "a", "s", "s", "w", "o", "r", "d">>,
     ip            |-> <<"i", "p">>,
     mqtt_broker   |-> <<"m", "q", "t", "t", "_", "b", "r", "o", "k", "e", "r">>,
     mqtt_port     |-> <<"m", "q", "t", "t", "_", "p", "o", "r", "t">>,
     mqtt_topic    |-> <<"m", "q", "t", "t", "_", "t", "o", "p", "i", "c">>,
     mqtt_interval |-> <<"m", "q", "t", "t", "_", "i", "n", "t", "e", "r", "v", "a", "l">>]

\* known_paths, main.py:233
known_paths ==
    << <<"/">>,
       <<"/", "s", "t", "a", "t", "u", "s">>,
       <<"/", "s", "c", "a", "n">>,
       <<"/", "c", "o", "n", "f", "i", "g">> >>

P_root == known_paths[1]
P_status == known_paths[2]
P_scan == known_paths[3]
P_config == known_paths[4]

\* the module-level value of current_config, main.py:41-49
DefaultConfig ==
    [ssid          |-> S_nepiot,
     password      |-> S_iotneptun,
     ip            |-> <<>>,
     mqtt_broker   |-> S_broker,
     mqtt_port     |-> 1883,
     mqtt_topic    |-> S_topic,
     mqtt_interval |-> 5]

IntKeys == {"mqtt_port", "mqtt_interval"}
BlankableKeys == {"ip", "mqtt_broker"}


-----------------------------------------------------------------------------
(* str methods used by the firmware                                        *)

Whitespace == {" ", "\t", "\r", "\n"}

Digits == <<"0", "1", "2", "3", "4", "5", "6", "7", "8", "9">>

IsDigit(c) == \E i \in 1..10 : Digits[i] = c

DigitVal(c) == (CHOOSE i \in 1..10 : Digits[i] = c) - 1

\* index of the first occurrence of character c in s, 0 when absent
RECURSIVE IndexFrom(_, _, _)
IndexFrom(s, c, i) ==
    IF i > Len(s) THEN 0
    ELSE IF s[i] = c THEN i
    ELSE IndexFrom(s, c, i + 1)

Find(s, c) == IndexFrom(s, c, 1)

Contains(s, c) == Find(s, c) # 0

\* s.startswith(p)
StartsWith(s, p) == Len(s) >= Len(p) /\ SubSeq(s, 1, Len(p)) = p

\* s.split(c, maxsplit); maxsplit < 0 is "no limit"
RECURSIVE SplitMax(_, _, _)
SplitMax(s, c, maxsplit) ==
    LET i == Find(s, c)
    IN  IF maxsplit = 0 \/ i = 0 THEN <<s>>
        ELSE <<SubSeq(s, 1, i - 1)>>
             \o SplitMax(SubSeq(s, i + 1, Len(s)), c, maxsplit - 1)

Split(s, c) == SplitMax(s, c, -1)

\* s.replace(c, d) for single characters
ReplaceChar(s, c, d) == [i \in 1..Len(s) |-> IF s[i] = c THEN d ELSE s[i]]

\* s.replace('%20', ' ')
RECURSIVE ReplacePct20(_)
ReplacePct20(s) ==
    IF Len(s) = 0 THEN <<>>
    ELSE IF StartsWith(s, <<"%", "2", "0">>)
         THEN <<" ">> \o ReplacePct20(SubSeq(s, 4, Len(s)))
         ELSE <<s[1]>> \o ReplacePct20(Tail(s))

RECURSIVE LStrip(_)
LStrip(s) ==
    IF Len(s) > 0 /\ s[1] \in Whitespace THEN LStrip(Tail(s)) ELSE s

RECURSIVE RStrip(_)
RStrip(s) ==
    IF Len(s) > 0 /\ s[Len(s)] \in Whitespace
    THEN RStrip(SubSeq(s, 1, Len(s) - 1)) ELSE s

\* s.strip()
Strip(s) == RStrip(LStrip(s))

RECURSIVE DigitsValue(_, _)
DigitsValue(s, acc) ==
    IF Len(s) = 0 THEN acc
    ELSE DigitsValue(Tail(s), acc * 10 + DigitVal(s[1]))

\* int(s): surrounding whitespace, an optional sign, then decimal digits;
\* anything else raises ValueError (ok = FALSE)
ParseInt(s) ==
    LET t == Strip(s)
        signed == Len(t) > 0 /\ t[1] \in {"-", "+"}
        d == IF signed THEN Tail(t) ELSE t
        good == Len(d) > 0 /\ \A i \in 1..Len(d) : IsDigit(d[i])
    IN  IF ~good THEN [ok |-> FALSE, val |-> 0]
        ELSE [ok |-> TRUE,
              val |-> IF signed /\ t[1] = "-" THEN 0 - DigitsValue(d, 0)
                      ELSE DigitsValue(d, 0)]

-----------------------------------------------------------------------------
(* Config Store: load_config / save_config                                 *)

\* config.json: [exists |-> FALSE] when there is no readable JSON file
NoFile == [exists |-> FALSE, data |-> <<>>]

FileOf(cfg) == [exists |-> TRUE, data |-> cfg]

\* dict.update(json.load(f)): keys of the file overlay the defaults;
\* a missing or unreadable file leaves the defaults (main.py:71-72)
load_config(file) ==
    IF ~file.exists THEN DefaultConfig
    ELSE [k \in DOMAIN DefaultConfig |->
            IF k \in DOMAIN file.data THEN file.data[k] ELSE DefaultConfig[k]]

\* what the storage does with open('config.json', 'w') + json.dump
WriteOutcomes == {"written", "untouched", "truncated"}

\* json.dump(current_config, f); a write error is caught and only printed
\* (main.py:77-78): the file is then as it was (open failed) or cut short
\* (dump failed after open truncated it), which no longer parses as JSON
save_config(cfg, file, outcome) ==
    CASE outcome = "written"   -> FileOf(cfg)
      [] outcome = "untouched" -> file
      [] outcome = "truncated" -> NoFile

\* truthiness of current_config.get(key) for a string-valued key
IsSet(cfg, key) == cfg[key] # <<>>

-----------------------------------------------------------------------------
(* HTTP Control Plane: parse_form_data and the form route                  *)

\* form_data[key] = value on a dict kept as a sequence of [key, value]
DictSet(d, key, value) ==
    IF \E i \in 1..Len(d) : d[i].key = key
    THEN [i \in 1..Len(d) |->
            IF d[i].key = key THEN [key |-> key, value |-> value] ELSE d[i]]
    ELSE Append(d, [key |-> key, value |-> value])

\* the body of the "for pair in pairs" loop, main.py:195
DecodePair(d, pair) ==
    LET i == Find(pair, "=")
    IN  IF i = 0 THEN d
        ELSE DictSet(d, SubSeq(pair, 1, i - 1),
                     ReplacePct20(ReplaceChar(SubSeq(pair, i + 1, Len(pair)),
                                              "+", " ")))

RECURSIVE DecodePairs(_, _)
DecodePairs(d, pairs) ==
    IF Len(pairs) = 0 THEN d
    ELSE DecodePairs(DecodePair(d, Head(pairs)), Tail(pairs))

parse_form_data(data) == DecodePairs(<<>>, Split(data, "&"))

\* dict.get(key, default) on a decoded form
FormGet(d, key, default) ==
    IF \E i \in 1..Len(d) : d[i].key = key
    THEN d[CHOOSE i \in 1..Len(d) : d[i].key = key].value
    ELSE default

\* "key in current_config" for a key spelled in a query string
InConfig(cfg, key) == \E k \in DOMAIN cfg : KeyChars[k] = key

FieldOf(cfg, key) == CHOOSE k \in DOMAIN cfg : KeyChars[k] = key

\* the body of the "for key, value in form_data.items()" loop, main.py:275-281
ApplyFieldDropGuards(cfg, key, value) ==
    IF ~InConfig(cfg, key) THEN cfg
    ELSE LET k == FieldOf(cfg, key)
         IN  IF k \in IntKeys
             THEN IF ParseInt(value).ok
                  THEN [cfg EXCEPT ![k] = ParseInt(value).val] ELSE cfg
             ELSE [cfg EXCEPT ![k] = Strip(value)]

ApplyFieldZeroOnBadInt(cfg, key, value) ==
    IF ~InConfig(cfg, key) THEN cfg
    ELSE LET k == FieldOf(cfg, key)
         IN  IF k = "password" /\ Strip(value) = <<>> THEN cfg
             ELSE IF Strip(value) # <<>> \/ k \in BlankableKeys
             THEN IF k \in IntKeys
                  THEN [cfg EXCEPT ![k] = ParseInt(value).val]
                  ELSE [cfg EXCEPT ![k] = Strip(value)]
             ELSE cfg

ApplyField(cfg, key, value) ==
    IF ~InConfig(cfg, key) THEN cfg
    ELSE LET k == FieldOf(cfg, key)
         IN  IF k = "password" /\ Strip(value) = <<>> THEN cfg
             ELSE IF Strip(value) # <<>> \/ k \in BlankableKeys
             THEN IF k \in IntKeys
                  THEN IF ParseInt(value).ok
                       THEN [cfg EXCEPT ![k] = ParseInt(value).val] ELSE cfg
                  ELSE [cfg EXCEPT ![k] = Strip(value)]
             ELSE cfg

RECURSIVE ApplyForm(_, _)
ApplyForm(cfg, form) ==
    IF Len(form) = 0 THEN cfg
    ELSE ApplyForm(ApplyField(cfg, Head(form).key, Head(form).value), Tail(form))

\* path.split("?", 1)[1] if "?" in path else ""
QueryOf(path) ==
    IF Contains(path, "?") THEN SubSeq(path, Find(path, "?") + 1, Len(path))
    ELSE <<>>

\* safe_config, main.py:259-260
SafeConfigLeaky(cfg) == cfg

SafeConfig(cfg) == [cfg EXCEPT !.password = <<>>]

\* main.py:235-238
IsKnownPath(path) ==
    \E i \in 1..Len(known_paths) :
        path = known_paths[i] \/ StartsWith(path, known_paths[i] \o <<"?">>)

\* get_cnc_status, main.py:80-81
get_cnc_status(pin) == IF pin = 1 THEN "ONLINE" ELSE "OFFLINE"

-----------------------------------------------------------------------------
(* Network Mode Manager: connect_wifi                                      *)

\* timeout = 20, main.py:129
WifiTimeout == 20

\* the "while not wlan.isconnected() and timeout > 0" loop, main.py:130-132;
\* the link comes up `upAfter` seconds after wlan.connect(), and `timeout`
\* seconds of the budget are left; the result is the number of polls slept
RECURSIVE PollLink(_, _, _)
PollLink(upAfter, timeout, polls) ==
    IF upAfter > WifiTimeout - timeout /\ timeout > 0
    THEN PollLink(upAfter, timeout - 1, polls + 1)
    ELSE polls

\* connect_wifi, main.py:123-136; it sets current_mode = "STA" in every case
connect_wifiKeepsMode(cfg, upAfter) ==
    IF ~IsSet(cfg, "ssid") \/ ~IsSet(cfg, "password")
    THEN [ok |-> FALSE, attempted |-> FALSE, polls |-> 0, mode |-> "AP"]
    ELSE LET polls == PollLink(upAfter, WifiTimeout, 0)
         IN  [ok |-> upAfter <= polls, attempted |-> TRUE, polls |-> polls,
              mode |-> "STA"]

connect_wifi(cfg, upAfter) ==
    IF ~IsSet(cfg, "ssid") \/ ~IsSet(cfg, "password")
    THEN [ok |-> FALSE, attempted |-> FALSE, polls |-> 0, mode |-> "STA"]
    ELSE LET polls == PollLink(upAfter, WifiTimeout, 0)
         IN  [ok |-> upAfter <= polls, attempted |-> TRUE, polls |-> polls,
              mode |-> "STA"]

\* one call of connect_wifi: when the link came up, and what the call did
NoWifi == [called |-> FALSE, upAfter |-> 0, attempted |-> FALSE, polls |-> 0,
           ok |-> FALSE]

WifiCall(upAfter, w) ==
    [called |-> TRUE, upAfter |-> upAfter, attempted |-> w.attempted,
     polls |-> w.polls, ok |-> w.ok]

-----------------------------------------------------------------------------
(* MQTT Publisher                                                          *)

\* the handler of main.py:154-158 with the display module present: the
\* handle is dropped and connect_mqtt returns False
ConnectFailedIsFatal == [client |-> "None", ret |-> "raise", refused |-> TRUE]

ConnectFailed == [client |-> "None", ret |-> "False", refused |-> TRUE]

\* connect_mqtt, main.py:138-158.  ret is "True", "False" or "raise": without
\* the display module add_debug_line is an undefined name, the NameError of
\* line 148 is caught at line 154 and line 156 raises it again, before
\* line 157 clears the handle
\* refused: mqtt_client.connect() of line 150 was reached and raised
connect_mqtt(client, cfg, mqttAvail, display, brokerOk) ==
    IF ~mqttAvail \/ ~IsSet(cfg, "mqtt_broker")
    THEN [client |-> client, ret |-> "False", refused |-> FALSE]
    ELSE IF ~display
    THEN [client |-> "created", ret |-> "raise", refused |-> FALSE]
    ELSE IF brokerOk
    THEN [client |-> "connected", ret |-> "True", refused |-> FALSE]
    ELSE ConnectFailed

\* payload, main.py:166-168: the literal string, as its fields in order
Payload(status) ==
    << <<"cycle", IF status = "ONLINE" THEN 1 ELSE 0>>,
       <<"L1", 0>>, <<"L2", 0>>, <<"L3", 0>> >>

\* the condition of main.py:165
ShouldPublishOnChangeOnly(status, last, forced) == status # last

ShouldPublish(status, last, forced) == status # last \/ forced

\* publish_mqtt_status, main.py:160-177.  issued: the messages handed to
\* mqtt_client.publish; delivered: whether that call returned.  On a handle
\* that was only constructed ("created") publish raises; on one inside
\* connect() ("connecting") it may return or raise
publish_mqtt_status(client, last, cfg, display, forced, pin, transportOk) ==
    LET status == get_cnc_status(pin)
        msg == [topic |-> cfg.mqtt_topic, payload |-> Payload(status)]
    IN  IF client = "None"
        THEN [client |-> client, last |-> last, issued |-> <<>>,
              delivered |-> FALSE, ret |-> "ok"]
        ELSE IF ~ShouldPublish(status, last, forced)
        THEN [client |-> client, last |-> last, issued |-> <<>>,
              delivered |-> FALSE, ret |-> "ok"]
        ELSE IF client \in {"connected", "connecting"} /\ transportOk
        THEN IF display
             THEN [client |-> client, last |-> status, issued |-> <<msg>>,
                   delivered |-> TRUE, ret |-> "ok"]
             ELSE [client |-> client, last |-> last, issued |-> <<msg>>,
                   delivered |-> TRUE, ret |-> "raise"]
        ELSE IF display
             THEN [client |-> "None", last |-> last, issued |-> <<msg>>,
                   delivered |-> FALSE, ret |-> "ok"]
             ELSE [client |-> client, last |-> last, issued |-> <<msg>>,
                   delivered |-> FALSE, ret |-> "raise"]

\* start_mqtt_timer, main.py:179-190; timerOk: some hardware timer id is free
start_mqtt_timer(cfg, timerOk) ==
    cfg.mqtt_interval > 0 /\ IsSet(cfg, "mqtt_broker") /\ timerOk

-----------------------------------------------------------------------------
(* HTTP Control Plane: handle_request                                      *)

Resp(status, kind, body) == [status |-> status, kind |-> kind, body |-> body]

\* the client_socket.send calls that return before send number failAt raises
\* (failAt = 0: none raises)
Delivered(plan, failAt) ==
    IF failAt = 0 \/ failAt > Len(plan) THEN plan
    ELSE SubSeq(plan, 1, failAt - 1)

AllSent(plan, failAt) == failAt = 0 \/ failAt > Len(plan)

\* the handler of main.py:299-300: an exception raised while handling is
\* printed, the finally clause closes the socket and handle_request returns
\* ("raise": the exception leaves handle_request)
OnHandlerExceptionEscapes == "raise"

OnHandlerException == "closed"

\* an exchange that changes nothing and may write some responses; complete:
\* no send raised
Exchange(cfg, file, plan, failAt) ==
    [config |-> cfg, file |-> file, sent |-> Delivered(plan, failAt),
     complete |-> AllSent(plan, failAt),
     applied |-> FALSE,
     outcome |-> IF AllSent(plan, failAt) THEN "closed"
                 ELSE OnHandlerException]

\* RECEIVE and PARSE: the request line split as line 225 does, and the query
\* string decoded as lines 250-251 and 272-273 do; parts has three elements
\* exactly when the unpacking of line 225 succeeds
Decode(line) ==
    LET parts == SplitMax(line, " ", 2)
    IN  [line |-> line,
         parts |-> parts,
         form |-> IF Len(parts) = 3
                  THEN parse_form_data(QueryOf(parts[2])) ELSE <<>>]

\* the form route, main.py:271-287: apply, save, confirm, sleep, reset.
\* A send that raises leaves through the handler of line 299, past
\* machine.reset()
SubmitForm(cfg, file, form, env) ==
    LET new == ApplyForm(cfg, form)
        plan == <<Resp(200, "saved", <<>>)>>
    IN  [config |-> new,
         file |-> save_config(new, file, env.write),
         sent |-> Delivered(plan, env.failAt),
         complete |-> AllSent(plan, env.failAt),
         applied |-> TRUE,
         outcome |-> IF AllSent(plan, env.failAt) THEN "reset"
                     ELSE OnHandlerException]

\* check_ssid_visible, main.py:198-215: up to ten scans of the same air; it
\* switches the station interface on and off and leaves current_mode alone
check_ssid_visible(target_ssid, onAir) == target_ssid \in onAir

\* the routes of "if method == 'GET'", main.py:248-297
RouteGet(cfg, file, path, form, env) ==
    IF StartsWith(path, P_scan)
    THEN Exchange(cfg, file,
                  <<Resp(200, "json-header", <<>>),
                    Resp(0, "scan",
                         [found |-> check_ssid_visible(
                                      FormGet(form, KeyChars.ssid, <<>>),
                                      env.onAir)])>>, env.failAt)
    ELSE IF path = P_config
    THEN Exchange(cfg, file,
                  <<Resp(200, "json-header", <<>>),
                    Resp(0, "config", SafeConfig(cfg))>>, env.failAt)
    ELSE IF path = P_status
    THEN Exchange(cfg, file,
                  <<Resp(200, "status",
                         [status |-> get_cnc_status(env.pin),
                          gpio_value |-> env.pin])>>, env.failAt)
    ELSE IF path = P_root \/ StartsWith(path, P_root \o <<"?">>)
    THEN IF Contains(path, "?")
         THEN SubmitForm(cfg, file, form, env)
         ELSE Exchange(cfg, file,
                       <<Resp(200, "html-header", <<>>),
                         Resp(0, "index.html", <<>>)>>, env.failAt)
    ELSE Exchange(cfg, file, <<Resp(404, "not-found", <<>>)>>, env.failAt)

\* the handler of main.py:226-228: the request line does not unpack into
\* method, path and version, and handle_request returns through the finally
\* clause having sent nothing
MalformedRequestAnswered(cfg, file) ==
    Exchange(cfg, file, <<Resp(400, "not-found", <<>>)>>, 0)

MalformedRequest(cfg, file) == Exchange(cfg, file, <<>>, 0)

\* the address the firmware gives the access-point interface, and one a
\* DHCP server gave the station interface
ApAddress == <<"1", "9", "2", ".", "1", "6", "8", ".", "4", ".", "1">>

StaAddress == <<"1", "0", ".", "0", ".", "0", ".", "7">>

\* wlan.ifconfig()[0]: the address of the interface wlan refers to
Ifconfig(iface) ==
    CASE iface = "AP_IF"  -> ApAddress
      [] iface = "STA_IF" -> StaAddress
      [] OTHER            -> <<>>

\* redirect_url, main.py:242
RedirectUrl(iface) == <<"h", "t", "t", "p", ":", "/", "/">> \o Ifconfig(iface)

\* handle_request, main.py:217-303, on the decoded first line of what recv
\* returned.  iface: what wlan refers to; env: failAt (which send raises),
\* write (storage outcome), onAir (the SSIDs a scan sees), pin (status input)
handle_request(rq, mode, iface, cfg, file, env) ==
    IF rq.line = <<>> THEN Exchange(cfg, file, <<>>, 0)
    ELSE IF Len(rq.parts) # 3 THEN MalformedRequest(cfg, file)
    ELSE LET method == rq.parts[1]
             path == rq.parts[2]
         IN  IF mode = "AP" /\ ~IsKnownPath(path)
             THEN Exchange(cfg, file,
                           <<Resp(302, "redirect",
                                  [location |-> RedirectUrl(iface)])>>,
                           env.failAt)
             ELSE IF method = S_GET
             THEN RouteGet(cfg, file, path, rq.form, env)
             ELSE Exchange(cfg, file, <<>>, 0)

-----------------------------------------------------------------------------
(* DNS Responder: DNSServer.process_requests                               *)

\* packet[a:b]: positions a to b - 1 counted from 0, cut at the end
Slice(packet, a, b) ==
    SubSeq(packet, a + 1, IF b > Len(packet) THEN Len(packet) ELSE b)

\* bytes([int(p) for p in self.ip_address.split('.')]), main.py:59
IpBytes(ip_address) ==
    LET parts == Split(ip_address, ".")
    IN  [i \in 1..Len(parts) |-> ParseInt(parts[i]).val]

\* response, main.py:60
DnsResponse(packet, ip_address) ==
    Slice(packet, 0, 2) \o <<129, 128>> \o Slice(packet, 4, 6)
    \o Slice(packet, 4, 6) \o <<0, 0, 0, 0>> \o Slice(packet, 12, Len(packet))
    \o <<192, 12>> \o <<0, 1, 0, 1, 0, 0, 0, 60, 0, 4>> \o IpBytes(ip_address)

\* what recvfrom finds: nothing pending (it raises OSError 11), or a datagram
NoDatagram == [pending |-> FALSE, data |-> <<>>, addr |-> "none"]

Datagram(data, addr) == [pending |-> TRUE, data |-> data, addr |-> addr]

\* process_requests, main.py:55-63: the datagrams handed to sendto
process_requests(ip_address, datagram) ==
    IF ~datagram.pending \/ datagram.data = <<>> THEN <<>>
    ELSE <<[data |-> DnsResponse(datagram.data, ip_address),
            addr |-> datagram.addr]>>

-----------------------------------------------------------------------------
(* Requests offered to the device                                          *)

RequestLine(method, path) == method \o <<" ">> \o path \o <<" ", "H", "T", "T", "P">>

Q_roundtrip == <<"s", "s", "i", "d", "=", "N", "e", "w", "N", "e", "t", "&", "m", "q", "t", "t", "_", "p", "o", "r", "t", "=", "1", "8", "8", "4">>
Q_blank == <<"p", "a", "s", "s", "w", "o", "r", "d", "=", "&", "m", "q", "t", "t", "_", "t", "o", "p", "i", "c", "=", "t">>
Q_space == <<"m", "q", "t", "t", "_", "b", "r", "o", "k", "e", "r", "=", "&", "p", "a", "s", "s", "w", "o", "r", "d", "=", "+", "%", "2", "0">>
Q_newpw == <<"p", "a", "s", "s", "w", "o", "r", "d", "=", "p", "w", "2">>
Q_dup == <<"p", "a", "s", "s", "w", "o", "r", "d", "=", "p", "w", "2", "&", "p", "a", "s", "s", "w", "o", "r", "d", "=">>
Q_badint == <<"m", "q", "t", "t", "_", "i", "n", "t", "e", "r", "v", "a", "l", "=", "x", "&", "m", "q", "t", "t", "_", "p", "o", "r", "t", "=", "8", "o", "&", "f", "o", "o", "=", "1", "&", "s", "s", "i", "d", "&", "m", "q", "t", "t", "_", "t", "o", "p", "i", "c", "=", "t">>

P_foo == <<"/", "f", "o", "o">>

S_POST == <<"P", "O", "S", "T">>

Queries == {Q_roundtrip, Q_blank, Q_space, Q_newpw, Q_dup, Q_badint}

FormLine(q) == RequestLine(S_GET, P_root \o <<"?">> \o q)

StatusLine == RequestLine(S_GET, P_status)

ConfigLine == RequestLine(S_GET, P_config)

ScanLine ==
    RequestLine(S_GET, P_scan \o <<"?">> \o KeyChars.ssid \o <<"=">> \o S_nepiot)

RequestLines ==
    {FormLine(q) : q \in Queries}
    \cup {RequestLine(S_GET, P_root), StatusLine, ScanLine,
          ConfigLine,
          RequestLine(S_GET, P_foo),
          RequestLine(S_GET, P_scan \o <<"x">>),
          RequestLine(S_POST, P_foo),
          RequestLine(S_POST, P_config),
          S_GET,
          S_GET \o <<" ">> \o P_status,
          <<>>}

\* what recv and the parsing make of each request line
Requests == {Decode(line) : line \in RequestLines}

\* the environment of one exchange: which send raises (0: none), what the
\* storage does with a write, the SSIDs on the air, the status pin; each request
\* gets the inputs its route reads
EnvsFor(line) ==
    IF \E q \in Queries : line = FormLine(q)
    THEN [failAt : 0..1, write : WriteOutcomes, onAir : {{}}, pin : {0}]
    ELSE IF line = ScanLine
    THEN [failAt : 0..2, write : {"written"}, onAir : {{}, {S_nepiot}}, pin : {0}]
    ELSE IF line = StatusLine
    THEN [failAt : 0..1, write : {"written"}, onAir : {{}}, pin : {0, 1}]
    ELSE [failAt : 0..2, write : {"written"}, onAir : {{}}, pin : {0}]

\* DNS queries: header (id, flags with RD, QDCOUNT 1, ANCOUNT 0, NSCOUNT 0,
\* ARCOUNT), one question, and with edns an OPT record in the additional
\* section
T_A == <<0, 1>>

T_AAAA == <<0, 28>>

C_IN == <<0, 1>>

OptRecord == <<0, 0, 41, 16, 0, 0, 0, 0, 0, 0, 0>>

DnsQuery(id, name, qtype, edns) ==
    id \o <<1, 0>> \o <<0, 1>> \o <<0, 0>> \o <<0, 0>>
    \o (IF edns THEN <<0, 1>> ELSE <<0, 0>>)
    \o name \o qtype \o C_IN
    \o (IF edns THEN OptRecord ELSE <<>>)

DnsIds == {<<0, 1>>, <<171, 205>>, <<255, 255>>}

\* the root, "a" and "ab.c" as length-prefixed labels
DnsNames == {<<0>>, <<1, 97, 0>>, <<2, 97, 98, 1, 99, 0>>}

DnsSenders == {"client-1", "client-2"}

DnsDatagrams ==
    {NoDatagram}
    \cup {Datagram(DnsQuery(id, name, qtype, edns), addr) :
            id \in DnsIds, name \in DnsNames, qtype \in {T_A, T_AAAA},
            edns \in BOOLEAN, addr \in DnsSenders}
    \cup {Datagram(data, addr) :
            data \in {<<>>, <<7, 7, 7>>}, addr \in DnsSenders}

\* the datagrams offered to the DNS step of the supervisor loop
LoopDatagrams ==
    {NoDatagram,
     Datagram(DnsQuery(<<171, 205>>, <<1, 97, 0>>, T_A, FALSE), "client-1")}

\* addresses a DNSServer object is constructed with
DnsAddresses == {ApAddress, <<"1", "0", ".", "0", ".", "0", ".", "2", "5", "5">>}

-----------------------------------------------------------------------------
(* main() and the Supervisor Loop, as functions of state and inputs        *)

\* seconds after wlan.connect() at which the link is up; more than
\* WifiTimeout: not within the polling window
UpAfters == {0, 1, WifiTimeout, WifiTimeout + 1}

BootEnvs ==
    [upAfter : UpAfters, brokerOk : BOOLEAN, timerOk : BOOLEAN,
     pin : {0, 1}, transportOk : BOOLEAN]

\* main.py:369-372: setup_ap_mode() unless the station connect succeeded
\* (connect_wifi has then set current_mode = "STA")
BootModeNoFallback(connected) == "STA"

BootMode(connected) == IF connected THEN "STA" ELSE "AP"

\* main, main.py:358-380.  outcome "fault": an exception leaves main() and
\* the handler of line 388 resets the device
main(file, display, mqttAvail, env) ==
    LET cfg == load_config(file)
        creds == IsSet(cfg, "ssid") /\ IsSet(cfg, "password")
        w == connect_wifi(cfg, env.upAfter)
        connected == creds /\ w.ok
        useMqtt == connected /\ IsSet(cfg, "mqtt_broker")
        m == connect_mqtt("None", cfg, mqttAvail, display, env.brokerOk)
        session == useMqtt /\ m.ret = "True"
        p == publish_mqtt_status(m.client, "None", cfg, display, TRUE,
                                 env.pin, env.transportOk)
        fault == connected
                 /\ (\/ useMqtt /\ m.ret = "raise"
                     \/ session /\ p.ret = "raise"
                     \/ ~display)
    IN  [config |-> cfg,
         mode |-> BootMode(connected),
         wlan |-> IF connected THEN "STA_IF" ELSE "AP_IF",
         dns |-> ~connected,
         dnsAddress |-> IF connected THEN <<>> ELSE Ifconfig("AP_IF"),
         client |-> IF session THEN p.client
                    ELSE IF useMqtt THEN m.client ELSE "None",
         timer |-> session /\ start_mqtt_timer(cfg, env.timerOk),
         last |-> IF session THEN p.last ELSE "None",
         wifiAttempted |-> creds /\ w.attempted,
         wifiOk |-> connected,
         mqttCalls |-> IF useMqtt THEN 1 ELSE 0,
         refused |-> useMqtt /\ m.refused,
         session |-> session,
         call |-> p,
         outcome |-> IF fault THEN "fault" ELSE "serving"]

\* "if current_mode == 'STA'", main.py:321
SupervisesLinkInAnyMode(mode) == TRUE

SupervisesLink(mode) == mode = "STA"

\* main.py:324-326: a failed reconnect resets the device
ReconnectFailedSoftAP == [mode |-> "AP", outcome |-> "continue"]

ReconnectFailed == [mode |-> "STA", outcome |-> "reset"]

LoopEnvs ==
    [linkUp : BOOLEAN, upAfter : UpAfters, brokerOk : BOOLEAN,
     retryOk : BOOLEAN]

\* step (a) of an iteration, main.py:321-333
supervise(mode, cfg, client, display, mqttAvail, env) ==
    LET lost == ~env.linkUp
        w == connect_wifi(cfg, env.upAfter)
        broker == IsSet(cfg, "mqtt_broker")
        first == lost /\ broker
        m1 == IF first
              THEN connect_mqtt(client, cfg, mqttAvail, display, env.brokerOk)
              ELSE [client |-> client, ret |-> "skipped", refused |-> FALSE]
        second == broker /\ m1.client = "None"
        m2 == IF second
              THEN connect_mqtt(m1.client, cfg, mqttAvail, display, env.retryOk)
              ELSE [client |-> m1.client, ret |-> "skipped", refused |-> FALSE]
        quiet == [mode |-> mode, client |-> client, lost |-> FALSE,
                  wifi |-> NoWifi,
                  wifiCalls |-> 0, wifiOk |-> FALSE, mqttCalls |-> 0,
                  refused |-> FALSE, connected |-> FALSE,
                  outcome |-> "continue"]
    IN  IF ~SupervisesLink(mode) THEN quiet
        ELSE IF lost /\ ~display
        THEN [quiet EXCEPT !.lost = TRUE, !.outcome = "fatal"]
        ELSE IF lost /\ ~w.ok
        THEN [quiet EXCEPT !.lost = TRUE,
                           !.wifi = WifiCall(env.upAfter, w),
                           !.wifiCalls = IF w.attempted THEN 1 ELSE 0,
                           !.mode = ReconnectFailed.mode,
                           !.outcome = ReconnectFailed.outcome]
        ELSE [mode |-> IF lost THEN w.mode ELSE mode,
              client |-> m2.client,
              lost |-> lost,
              wifi |-> IF lost THEN WifiCall(env.upAfter, w) ELSE NoWifi,
              wifiCalls |-> IF lost /\ w.attempted THEN 1 ELSE 0,
              wifiOk |-> lost,
              mqttCalls |-> (IF first THEN 1 ELSE 0) + (IF second THEN 1 ELSE 0),
              refused |-> m1.refused \/ m2.refused,
              connected |-> m1.ret = "True" \/ m2.ret = "True",
              outcome |-> IF m1.ret = "raise" \/ m2.ret = "raise"
                          THEN "fatal" ELSE "continue"]

\* main.py:7-14: errno is not among the imported modules
ErrnoImported == FALSE

\* the handler of main.py:339-340 when accept() raises OSError: evaluating
\* errno.EAGAIN raises NameError, which leaves the inner try and is caught
\* by the handler of line 351
OnAcceptOSError == IF ErrnoImported THEN "continue" ELSE "fatal"

-----------------------------------------------------------------------------
(* Observations                                                            *)

NoBoot == [fresh |-> FALSE, wifiAttempted |-> FALSE, wifiOk |-> FALSE,
           mqttCalls |-> 0, refused |-> FALSE]

NoTick == [lost |-> FALSE, wifi |-> NoWifi, wifiCalls |-> 0, wifiOk |-> FALSE,
           mqttCalls |-> 0, refused |-> FALSE]

NoHttp == [valid |-> FALSE, accepted |-> FALSE, line |-> <<>>, sent |-> <<>>,
           complete |-> TRUE, closed |-> FALSE, applied |-> FALSE,
           before |-> DefaultConfig, fileBefore |-> NoFile]

NoDns == [handled |-> FALSE, datagram |-> NoDatagram, sent |-> <<>>]

\* one call of dns_server.process_requests(): what it received and sent
DnsCycle(ip_address, datagram) ==
    [handled |-> TRUE, datagram |-> datagram,
     sent |-> process_requests(ip_address, datagram)]

NoRoundTrip == [active |-> FALSE, rebooted |-> FALSE, expect |-> DefaultConfig]

\* one publish_mqtt_status call: its inputs and its result
CallRecord(forced, client, last, first, pin, r) ==
    [forced |-> forced, session |-> client, status |-> get_cnc_status(pin),
     lastBefore |-> last, first |-> first, issued |-> r.issued,
     delivered |-> r.delivered, clientAfter |-> r.client, lastAfter |-> r.last]

\* the latest three calls
KeepThree(cs) == IF Len(cs) > 3 THEN Tail(cs) ELSE cs

-----------------------------------------------------------------------------
(* The device                                                              *)

\* a provisioning file that carries no credentials
BlankCredentialsFile == FileOf([ssid |-> <<>>, password |-> <<>>])

\* power-on: the module-level values of main.py:41-50; what is on flash
\* (the optional modules, config.json) is the environment's
Init ==
    /\ DISPLAY_AVAILABLE \in BOOLEAN
    /\ MQTT_AVAILABLE \in BOOLEAN
    /\ configFile \in {NoFile, BlankCredentialsFile}
    /\ current_config = DefaultConfig
    /\ current_mode = "STA"
    /\ wlan = "None"
    /\ dns_server = FALSE
    /\ dns_ip_address = <<>>
    /\ mqtt_client = "None"
    /\ mqtt_timer = FALSE
    /\ last_status = "None"
    /\ pc = "boot"
    /\ resetCause = "none"
    /\ boot = NoBoot
    /\ tick = NoTick
    /\ http = NoHttp
    /\ dns = NoDns
    /\ calls = <<>>
    /\ sessionFresh = FALSE
    /\ roundTrip = NoRoundTrip
    /\ nsub = 0

Flash == <<DISPLAY_AVAILABLE, MQTT_AVAILABLE>>

\* Each of boot, tick, http and calls describes the step just taken and is
\* blank after any other step.

\* main() up to the first iteration of start_server's loop
Boot ==
    /\ pc = "boot"
    /\ \E env \in BootEnvs :
        LET r == main(configFile, DISPLAY_AVAILABLE, MQTT_AVAILABLE, env)
        IN  /\ current_config' = r.config
            /\ current_mode' = r.mode
            /\ wlan' = r.wlan
            /\ dns_server' = r.dns
            /\ dns_ip_address' = r.dnsAddress
            /\ mqtt_client' = r.client
            /\ mqtt_timer' = r.timer
            /\ last_status' = r.last
            /\ pc' = IF r.outcome = "fault" THEN "reset" ELSE "loop"
            /\ resetCause' = IF r.outcome = "fault" THEN "main" ELSE "none"
            /\ boot' = [fresh |-> TRUE, wifiAttempted |-> r.wifiAttempted,
                        wifiOk |-> r.wifiOk, mqttCalls |-> r.mqttCalls,
                        refused |-> r.refused]
            /\ calls' = IF r.session
                        THEN <<CallRecord(TRUE, "connected", "None", TRUE,
                                          env.pin, r.call)>>
                        ELSE <<>>
    /\ sessionFresh' = FALSE
    /\ tick' = NoTick
    /\ http' = NoHttp
    /\ dns' = NoDns
    /\ UNCHANGED <<Flash, configFile, roundTrip, nsub>>

\* step (a): link and MQTT supervision, main.py:321-333
Supervise ==
    /\ pc = "loop"
    /\ \E env \in LoopEnvs :
        LET r == supervise(current_mode, current_config, mqtt_client,
                           DISPLAY_AVAILABLE, MQTT_AVAILABLE, env)
        IN  /\ current_mode' = r.mode
            /\ mqtt_client' = r.client
            /\ pc' = IF r.outcome = "continue" THEN "accept" ELSE "reset"
            /\ resetCause' = CASE r.outcome = "continue" -> "none"
                               [] r.outcome = "reset" -> "reconnect"
                               [] r.outcome = "fatal" -> "fatal"
            /\ tick' = [lost |-> r.lost, wifi |-> r.wifi,
                        wifiCalls |-> r.wifiCalls,
                        wifiOk |-> r.wifiOk, mqttCalls |-> r.mqttCalls,
                        refused |-> r.refused]
            /\ sessionFresh' = IF r.connected THEN TRUE ELSE sessionFresh
    /\ boot' = NoBoot
    /\ http' = NoHttp
    /\ dns' = NoDns
    /\ calls' = <<>>
    /\ UNCHANGED <<Flash, configFile, current_config, wlan, dns_server,
                   dns_ip_address,
                   mqtt_timer, last_status, roundTrip, nsub>>

\* step (b) with a connection pending: accept it and handle_request,
\* main.py:335-343.  closed: handle_request returned, through its finally
\* clause (lines 301-303), or raised, and the finally clause of lines
\* 342-343 ran; machine.reset() inside the handler does neither.  An OSError
\* that leaves handle_request meets the handler of lines 339-340
AcceptRequest ==
    /\ pc = "accept"
    /\ \E rq \in Requests : \E env \in EnvsFor(rq.line) :
        LET r == handle_request(rq, current_mode, wlan, current_config,
                                configFile, env)
            line == rq.line
        IN  /\ r.applied => nsub < MaxSubmissions
            /\ current_config' = r.config
            /\ configFile' = r.file
            /\ pc' = CASE r.outcome = "reset" -> "reset"
                       [] r.outcome = "raise" ->
                            IF OnAcceptOSError = "continue"
                            THEN "dns" ELSE "reset"
                       [] OTHER -> "dns"
            /\ resetCause' = CASE r.outcome = "reset" -> "config"
                               [] r.outcome = "raise" ->
                                    IF OnAcceptOSError = "continue"
                                    THEN "none" ELSE "fatal"
                               [] OTHER -> "none"
            /\ http' = [valid |-> TRUE, accepted |-> TRUE, line |-> line,
                        sent |-> r.sent, complete |-> r.complete,
                        closed |-> r.outcome # "reset",
                        applied |-> r.applied,
                        before |-> current_config, fileBefore |-> configFile]
            /\ nsub' = IF r.applied THEN nsub + 1 ELSE nsub
            /\ roundTrip' =
                 IF ~r.applied THEN roundTrip
                 ELSE IF line = FormLine(Q_roundtrip)
                 THEN [active |-> TRUE, rebooted |-> FALSE,
                       expect |-> [current_config EXCEPT
                                     !.ssid = <<"N", "e", "w", "N", "e", "t">>,
                                     !.mqtt_port = 1884]]
                 ELSE NoRoundTrip
    /\ boot' = NoBoot
    /\ tick' = NoTick
    /\ dns' = NoDns
    /\ calls' = <<>>
    /\ UNCHANGED <<Flash, current_mode, wlan, dns_server, dns_ip_address,
                   mqtt_client,
                   mqtt_timer, last_status, sessionFresh>>

\* step (b) with no connection pending: the non-blocking accept raises
\* OSError(EAGAIN), main.py:337-340
AcceptWouldBlock ==
    /\ pc = "accept"
    /\ pc' = IF OnAcceptOSError = "continue" THEN "dns" ELSE "reset"
    /\ resetCause' = IF OnAcceptOSError = "continue" THEN "none" ELSE "fatal"
    /\ http' = [NoHttp EXCEPT !.valid = TRUE, !.before = current_config,
                              !.fileBefore = configFile]
    /\ boot' = NoBoot
    /\ tick' = NoTick
    /\ dns' = NoDns
    /\ calls' = <<>>
    /\ UNCHANGED <<Flash, configFile, current_config, current_mode, wlan,
                   dns_server, dns_ip_address, mqtt_client, mqtt_timer,
                   last_status,
                   sessionFresh, roundTrip, nsub>>

\* steps (c)-(e): one DNS cycle in access-point mode, gc, sleep,
\* main.py:345-347
Housekeeping ==
    /\ pc = "dns"
    /\ pc' = "loop"
    /\ IF current_mode = "AP" /\ dns_server
       THEN \E datagram \in LoopDatagrams :
               dns' = DnsCycle(dns_ip_address, datagram)
       ELSE dns' = NoDns
    /\ boot' = NoBoot
    /\ tick' = NoTick
    /\ http' = NoHttp
    /\ calls' = <<>>
    /\ UNCHANGED <<Flash, configFile, current_config, current_mode, wlan,
                   dns_server, dns_ip_address, mqtt_client, mqtt_timer,
                   last_status, resetCause, sessionFresh, roundTrip, nsub>>

\* the periodic timer's callback, publish_mqtt_status(timer), main.py:187.
\* The callback touches only mqtt_client and last_status, which steps (b)
\* to (e) neither read nor write, so in the loop it is taken before or after
\* step (a).  At "reset" the main thread is in the time.sleep that precedes
\* machine.reset() (lines 326, 285, 352, 390) and the timer, which nothing
\* stops, still fires
TimerFire ==
    /\ mqtt_timer
    /\ pc \in {"loop", "accept", "reset"}
    /\ \E pin \in {0, 1}, transportOk \in BOOLEAN :
        LET r == publish_mqtt_status(mqtt_client, last_status, current_config,
                                     DISPLAY_AVAILABLE, TRUE, pin, transportOk)
        IN  /\ mqtt_client' = r.client
            /\ last_status' = r.last
            /\ calls' = <<CallRecord(TRUE, mqtt_client, last_status,
                                     sessionFresh, pin, r)>>
    /\ sessionFresh' = FALSE
    /\ boot' = NoBoot
    /\ tick' = NoTick
    /\ http' = NoHttp
    /\ dns' = NoDns
    /\ UNCHANGED <<Flash, configFile, current_config, current_mode, wlan,
                   dns_server, dns_ip_address, mqtt_timer, pc, resetCause,
                   roundTrip, nsub>>

\* machine.reset(): RAM is lost, flash is kept, the module runs again
Reboot ==
    /\ pc = "reset"
    /\ current_config' = DefaultConfig
    /\ current_mode' = "STA"
    /\ wlan' = "None"
    /\ dns_server' = FALSE
    /\ dns_ip_address' = <<>>
    /\ mqtt_client' = "None"
    /\ mqtt_timer' = FALSE
    /\ last_status' = "None"
    /\ pc' = "boot"
    /\ resetCause' = "none"
    /\ boot' = NoBoot
    /\ tick' = NoTick
    /\ http' = NoHttp
    /\ dns' = NoDns
    /\ calls' = <<>>
    /\ sessionFresh' = FALSE
    /\ roundTrip' = IF roundTrip.active
                    THEN [roundTrip EXCEPT !.rebooted = TRUE] ELSE roundTrip
    /\ UNCHANGED <<Flash, configFile, nsub>>

Next ==
    \/ Boot
    \/ Supervise
    \/ AcceptRequest
    \/ AcceptWouldBlock
    \/ Housekeeping
    \/ TimerFire
    \/ Reboot

Spec == Init /\ [][Next]_vars

-----------------------------------------------------------------------------
(* The MQTT Publisher on its own: connect_mqtt and publish_mqtt_status     *)
(* called in any order, forced or not, on a device in station mode whose   *)
(* optional modules are present                                            *)

InitMqtt ==
    /\ DISPLAY_AVAILABLE = TRUE
    /\ MQTT_AVAILABLE = TRUE
    /\ configFile = NoFile
    /\ current_config = DefaultConfig
    /\ current_mode = "STA"
    /\ wlan = "STA_IF"
    /\ dns_server = FALSE
    /\ dns_ip_address = <<>>
    /\ mqtt_client = "None"
    /\ mqtt_timer = FALSE
    /\ last_status = "None"
    /\ pc = "loop"
    /\ resetCause = "none"
    /\ boot = NoBoot
    /\ tick = NoTick
    /\ http = NoHttp
    /\ dns = NoDns
    /\ calls = <<>>
    /\ sessionFresh = FALSE
    /\ roundTrip = NoRoundTrip
    /\ nsub = 0

Device == <<Flash, configFile, current_config, current_mode, wlan, dns_server,
            dns_ip_address, mqtt_timer, pc, resetCause, boot, tick, http, dns,
            roundTrip, nsub>>

\* connect_mqtt(); a new session forgets the calls made on the one before
MqttConnect ==
    /\ \E brokerOk \in BOOLEAN :
        LET r == connect_mqtt(mqtt_client, current_config, MQTT_AVAILABLE,
                              DISPLAY_AVAILABLE, brokerOk)
        IN  /\ mqtt_client' = r.client
            /\ sessionFresh' = (r.ret = "True")
    /\ UNCHANGED <<Device, last_status, calls>>

\* publish_mqtt_status(timer) with timer None (unforced) or not (forced)
MqttPublish ==
    /\ \E forced \in BOOLEAN, pin \in {0, 1}, transportOk \in BOOLEAN :
        LET r == publish_mqtt_status(mqtt_client, last_status, current_config,
                                     DISPLAY_AVAILABLE, forced, pin, transportOk)
        IN  /\ mqtt_client' = r.client
            /\ last_status' = r.last
            /\ calls' = KeepThree(Append(calls,
                          CallRecord(forced, mqtt_client, last_status,
                                     sessionFresh, pin, r)))
    /\ sessionFresh' = FALSE
    /\ UNCHANGED Device

NextMqtt == MqttConnect \/ MqttPublish

SpecMqtt == InitMqtt /\ [][NextMqtt]_vars

-----------------------------------------------------------------------------
(* connect_mqtt statement by statement, with the periodic timer armed: the *)
(* loop's retry of main.py:331-333 on a device whose boot-time connect     *)
(* succeeded (start_mqtt_timer ran) and whose session was lost since.  The *)
(* callback runs between two statements of the main thread and inside      *)
(* blocking calls.  pc is "loop" outside connect_mqtt, "mqtt:148" after    *)
(* line 147 and "mqtt:150" inside mqtt_client.connect()                    *)

InitRace ==
    /\ DISPLAY_AVAILABLE = TRUE
    /\ MQTT_AVAILABLE = TRUE
    /\ configFile = NoFile
    /\ current_config = DefaultConfig
    /\ current_mode = "STA"
    /\ wlan = "STA_IF"
    /\ dns_server = FALSE
    /\ dns_ip_address = <<>>
    /\ mqtt_client = "None"
    /\ mqtt_timer = TRUE
    /\ last_status \in {"None", "ONLINE", "OFFLINE"}
    /\ pc = "loop"
    /\ resetCause = "none"
    /\ boot = NoBoot
    /\ tick = NoTick
    /\ http = NoHttp
    /\ dns = NoDns
    /\ calls = <<>>
    /\ sessionFresh = FALSE
    /\ roundTrip = NoRoundTrip
    /\ nsub = 0

Bystanders == <<Flash, configFile, current_config, current_mode, wlan,
                dns_server, dns_ip_address, mqtt_timer, resetCause, boot,
                tick, http, dns, roundTrip, nsub>>

\* main.py:331-333 and 139-147: no session, so connect_mqtt is called and
\* assigns the new MQTTClient object to mqtt_client
ConnectCreate ==
    /\ pc = "loop"
    /\ IsSet(current_config, "mqtt_broker") /\ mqtt_client = "None"
    /\ MQTT_AVAILABLE
    /\ mqtt_client' = "created"
    /\ pc' = "mqtt:148"
    /\ sessionFresh' = FALSE
    /\ UNCHANGED <<Bystanders, last_status, calls>>

\* main.py:148-150: mqtt_client.connect() is looked up on the global; on None
\* the AttributeError goes to the handler of line 154 and connect_mqtt
\* returns False
ConnectEnter ==
    /\ pc = "mqtt:148"
    /\ IF mqtt_client = "None"
       THEN mqtt_client' = ConnectFailed.client /\ pc' = "loop"
       ELSE mqtt_client' = "connecting" /\ pc' = "mqtt:150"
    /\ sessionFresh' = FALSE
    /\ UNCHANGED <<Bystanders, last_status, calls>>

\* main.py:150-158: connect() returns on the object it was called on, and
\* connect_mqtt returns True (sessionFresh) whatever mqtt_client refers to
\* by then; or it raises, and the handler clears mqtt_client
ConnectReturn ==
    /\ pc = "mqtt:150"
    /\ \E brokerOk \in BOOLEAN :
          IF brokerOk
          THEN /\ mqtt_client' = IF mqtt_client = "connecting"
                                 THEN "connected" ELSE mqtt_client
               /\ sessionFresh' = TRUE
          ELSE /\ mqtt_client' = ConnectFailed.client
               /\ sessionFresh' = FALSE
    /\ pc' = "loop"
    /\ UNCHANGED <<Bystanders, last_status, calls>>

\* the timer's callback, main.py:187, wherever the main thread is
TimerCallback ==
    /\ mqtt_timer
    /\ \E pin \in {0, 1}, transportOk \in BOOLEAN :
        LET r == publish_mqtt_status(mqtt_client, last_status, current_config,
                                     DISPLAY_AVAILABLE, TRUE, pin, transportOk)
        IN  /\ mqtt_client' = r.client
            /\ last_status' = r.last
            /\ calls' = <<CallRecord(TRUE, mqtt_client, last_status,
                                     sessionFresh, pin, r)>>
    /\ sessionFresh' = FALSE
    /\ UNCHANGED <<Bystanders, pc>>

NextRace == ConnectCreate \/ ConnectEnter \/ ConnectReturn \/ TimerCallback

SpecRace == InitRace /\ [][NextRace]_vars

-----------------------------------------------------------------------------
(* connect_wifi on its own: called with any of WifiConfigs in memory, in   *)
(* either mode, with the link coming up at any of WifiUpAfters             *)

WifiConfigs ==
    {[DefaultConfig EXCEPT !.ssid = ssid, !.password = password] :
        ssid \in {<<>>, S_nepiot}, password \in {<<>>, S_iotneptun}}

\* seconds after wlan.connect() at which the link is up
WifiUpAfters == 0..(WifiTimeout + 2)

InitWifi ==
    /\ DISPLAY_AVAILABLE = TRUE
    /\ MQTT_AVAILABLE = TRUE
    /\ configFile = NoFile
    /\ current_config \in WifiConfigs
    /\ current_mode \in {"STA", "AP"}
    /\ wlan = IF current_mode = "AP" THEN "AP_IF" ELSE "None"
    /\ dns_server = (current_mode = "AP")
    /\ dns_ip_address = IF current_mode = "AP" THEN ApAddress ELSE <<>>
    /\ mqtt_client = "None"
    /\ mqtt_timer = FALSE
    /\ last_status = "None"
    /\ pc = "loop"
    /\ resetCause = "none"
    /\ boot = NoBoot
    /\ tick = NoTick
    /\ http = NoHttp
    /\ dns = NoDns
    /\ calls = <<>>
    /\ sessionFresh = FALSE
    /\ roundTrip = NoRoundTrip
    /\ nsub = 0

\* connect_wifi(), main.py:123-136
WifiConnect ==
    /\ ~tick.wifi.called
    /\ \E upAfter \in WifiUpAfters :
        LET w == connect_wifi(current_config, upAfter)
        IN  /\ current_mode' = w.mode
            /\ wlan' = IF w.attempted THEN "STA_IF" ELSE wlan
            /\ tick' = [NoTick EXCEPT !.wifi = WifiCall(upAfter, w),
                                      !.wifiCalls = IF w.attempted THEN 1 ELSE 0,
                                      !.wifiOk = w.ok]
    /\ UNCHANGED <<Flash, configFile, current_config, dns_server,
                   dns_ip_address, mqtt_client, mqtt_timer, last_status, pc,
                   resetCause, boot, http, dns, calls, sessionFresh,
                   roundTrip, nsub>>

NextWifi == WifiConnect

SpecWifi == InitWifi /\ [][NextWifi]_vars

-----------------------------------------------------------------------------
(* The DNS Responder on its own: a DNSServer object constructed with one   *)
(* of DnsAddresses on a device in access-point mode, and process_requests  *)
(* called on every datagram of DnsDatagrams                                *)

InitDns ==
    /\ DISPLAY_AVAILABLE = TRUE
    /\ MQTT_AVAILABLE = TRUE
    /\ configFile = BlankCredentialsFile
    /\ current_config = load_config(BlankCredentialsFile)
    /\ current_mode = "AP"
    /\ wlan = "AP_IF"
    /\ dns_server = TRUE
    /\ dns_ip_address \in DnsAddresses
    /\ mqtt_client = "None"
    /\ mqtt_timer = FALSE
    /\ last_status = "None"
    /\ pc = "dns"
    /\ resetCause = "none"
    /\ boot = NoBoot
    /\ tick = NoTick
    /\ http = NoHttp
    /\ dns = NoDns
    /\ calls = <<>>
    /\ sessionFresh = FALSE
    /\ roundTrip = NoRoundTrip
    /\ nsub = 0

\* dns_server.process_requests(), main.py:345
DnsServe ==
    /\ current_mode = "AP" /\ dns_server
    /\ \E datagram \in DnsDatagrams :
          dns' = DnsCycle(dns_ip_address, datagram)
    /\ UNCHANGED <<Flash, configFile, current_config, current_mode, wlan,
                   dns_server, dns_ip_address, mqtt_client, mqtt_timer,
                   last_status, pc, resetCause, boot, tick, http, calls,
                   sessionFresh, roundTrip, nsub>>

NextDns == DnsServe

SpecDns == InitDns /\ [][NextDns]_vars

-----------------------------------------------------------------------------
(* Properties                                                              *)

\* A session exists only on a device whose display module loaded, which is
\* what InitMqtt starts from.
SessionNeedsDisplay == mqtt_client # "None" /\ pc # "reset" => DISPLAY_AVAILABLE

\* C1: when the non-blocking accept finds no pending connection, the
\* iteration goes on to the DNS/housekeeping/sleep steps and reaches neither
\* the fatal-error path nor a device reboot.
C1_WouldBlockIsNoError ==
    (http.valid /\ ~http.accepted) => (pc = "dns" /\ resetCause # "fatal")

\* C2: at boot a station connect is attempted exactly when the loaded SSID
\* and password are both non-empty; the mode is STA exactly when the attempt
\* succeeded and AP, with the DNS responder started, otherwise; an MQTT
\* connect is attempted at boot only in station mode.
C2_BootModeSelection ==
    boot.fresh =>
        /\ boot.wifiAttempted <=>
             (current_config.ssid # <<>> /\ current_config.password # <<>>)
        /\ boot.wifiOk => boot.wifiAttempted
        /\ current_mode = "STA" <=> boot.wifiOk
        /\ current_mode # "STA" => (current_mode = "AP" /\ dns_server)
        /\ boot.mqttCalls > 0 => current_mode = "STA"

C2_Witness ==
    /\ boot.fresh /\ pc = "loop"
    /\ boot.wifiAttempted /\ ~boot.wifiOk
    /\ current_mode = "AP" /\ dns_server

\* C3: once the mode is AP it stays AP in every step that is not a device
\* reboot, whatever the supervisor, the HTTP routes (/scan included), the DNS
\* cycle or the timer do.
C3_AccessPointIsSticky ==
    [][(current_mode = "AP" /\ pc # "reset") => current_mode' = "AP"]_vars

C3_Witness ==
    /\ current_mode = "AP"
    /\ http.accepted /\ http.line = ScanLine /\ Len(http.sent) = 2

\* C4: a station-mode iteration that observes link loss calls connect_wifi
\* exactly once; on failure the device resets with the mode still STA (never
\* AP in place); on success the mode is STA and connect_mqtt is called when
\* a broker is configured.
C4_ReconnectOnceOrReboot ==
    tick.lost =>
        /\ tick.wifiCalls = 1
        /\ current_mode = "STA"
        /\ ~tick.wifiOk => (pc = "reset" /\ resetCause = "reconnect")
        /\ tick.wifiOk =>
             (current_config.mqtt_broker # <<>> => tick.mqttCalls >= 1)

C4_Witness ==
    tick.lost /\ tick.wifiCalls = 1 /\ ~tick.wifiOk /\ pc = "reset"

\* the decoded form of the request line carries a password field that is
\* empty or whitespace only
BlankPasswordSubmitted(line) ==
    LET form == Decode(line).form
    IN  \E i \in 1..Len(form) :
            form[i].key = KeyChars.password /\ Strip(form[i].value) = <<>>

\* C5: after a submission whose decoded password field is blank, the
\* password in current_config is the one from before the submission, and a
\* config.json the submission wrote carries that password too, whatever
\* other fields the submission has.
C5_BlankPasswordKeepsStored ==
    (http.accepted /\ http.applied /\ BlankPasswordSubmitted(http.line)) =>
        /\ current_config.password = http.before.password
        /\ (configFile.exists /\ configFile # http.fileBefore) =>
             configFile.data.password = http.before.password

C5_Witness ==
    /\ http.accepted /\ http.applied /\ http.line = FormLine(Q_space)
    /\ http.before.mqtt_broker # <<>> /\ current_config.mqtt_broker = <<>>
    /\ current_config.password = S_iotneptun
    /\ configFile.exists /\ configFile # http.fileBefore

\* C6: once a submission has been applied and written to config.json, the
\* next thing the device does is reboot, also when sending the confirmation
\* fails: no later step runs on the new in-memory settings.
C6_RebootAfterApply ==
    (http.applied /\ configFile = FileOf(current_config)) => pc = "reset"

\* C7: the form ssid=NewNet&mqtt_port=1884 triggers a reboot, and a GET
\* /config after that reboot reports ssid NewNet, mqtt_port 1884, password
\* "" and every other setting as before the submission.
C7_RoundTrip ==
    /\ (http.accepted /\ http.line = FormLine(Q_roundtrip)) => pc = "reset"
    /\ (/\ roundTrip.active /\ roundTrip.rebooted
        /\ http.accepted /\ http.line = ConfigLine /\ Len(http.sent) = 2) =>
            http.sent[2].body = [roundTrip.expect EXCEPT !.password = <<>>]

\* C8: a response that carries the configuration carries all of it with the
\* password field empty, no other route's response carries configuration
\* values, and serving /config changes neither current_config nor
\* config.json.
C8_PasswordNeverSent ==
    /\ \A i \in 1..Len(http.sent) :
          /\ http.sent[i].kind = "config" =>
                /\ http.sent[i].body.password = <<>>
                /\ \A k \in DOMAIN http.before \ {"password"} :
                      http.sent[i].body[k] = http.before[k]
          /\ http.sent[i].kind \in
                {"config", "json-header", "html-header", "index.html", "scan",
                 "status", "saved", "redirect", "not-found"}
          /\ http.sent[i].kind = "scan" => DOMAIN http.sent[i].body = {"found"}
          /\ http.sent[i].kind = "status" =>
                DOMAIN http.sent[i].body = {"status", "gpio_value"}
    /\ (http.accepted /\ http.line = ConfigLine) =>
          (current_config = http.before /\ configFile = http.fileBefore)

C8_Witness ==
    /\ http.accepted /\ http.line = ConfigLine /\ Len(http.sent) = 2
    /\ http.before.password = <<"p", "w", "2">>
    /\ http.sent[2].body.password = <<>>
    /\ http.sent[2].body.ssid = S_nepiot

\* the pair of calls the claim C9 is about: unforced, on an active session,
\* the same status at both, no transport failure, the second in the session
\* of the first, and the first either the first call of its session or the
\* first call after the status changed
C9_Pair(i) ==
    /\ ~calls[i].forced /\ ~calls[i + 1].forced
    /\ calls[i].session = "connected" /\ calls[i + 1].session = "connected"
    /\ calls[i].clientAfter = "connected"
    /\ calls[i + 1].clientAfter = "connected"
    /\ calls[i].status = calls[i + 1].status
    /\ ~calls[i + 1].first
    /\ \/ calls[i].first
       \/ i > 1 /\ calls[i - 1].status # calls[i].status

\* C9: of two consecutive unforced publish_status calls with the status
\* unchanged, the first publishes and the second does not, also when the
\* session was recreated since the last successful publish.
C9_ExactlyOnePublish ==
    \A i \in 1..(Len(calls) - 1) :
        C9_Pair(i) =>
            (Len(calls[i].issued) = 1 /\ Len(calls[i + 1].issued) = 0)

\* C10: a forced publish_status call on an active session issues exactly one
\* message with the fixed payload, whatever last_status was, and sets
\* last_status to the status when the publish succeeds; without a session it
\* issues nothing and leaves the session and last_status as they were.
C10_ForcedPublish ==
    \A i \in 1..Len(calls) :
        calls[i].forced =>
            IF calls[i].session # "None"
            THEN /\ Len(calls[i].issued) = 1
                 /\ calls[i].issued[1].payload =
                      << <<"cycle", IF calls[i].status = "ONLINE" THEN 1 ELSE 0>>,
                         <<"L1", 0>>, <<"L2", 0>>, <<"L3", 0>> >>
                 /\ calls[i].issued[1].topic = current_config.mqtt_topic
                 /\ calls[i].delivered => calls[i].lastAfter = calls[i].status
            ELSE /\ calls[i].issued = <<>>
                 /\ calls[i].clientAfter = "None"
                 /\ calls[i].lastAfter = calls[i].lastBefore

C10_Witness ==
    /\ Len(calls) = 1
    /\ calls[1].forced /\ calls[1].session = "connected"
    /\ calls[1].lastBefore = calls[1].status
    /\ Len(calls[1].issued) = 1 /\ calls[1].delivered
    /\ last_status = calls[1].status

\* C11: in station mode with a broker configured, a positive publish
\* interval and an active session the periodic timer is armed, also when the
\* session was established by the supervisor loop's connect and not at boot.
C11_TimerArmedWithSession ==
    (/\ pc = "accept" /\ tick.mqttCalls > 0
     /\ current_mode = "STA"
     /\ current_config.mqtt_broker # <<>>
     /\ current_config.mqtt_interval > 0
     /\ mqtt_client = "connected") => mqtt_timer

\* C12: a station-mode supervisor iteration that goes on to the accept step
\* has attempted connect_mqtt exactly once when a broker is configured and
\* no session existed at its start, and not at all otherwise: never twice in
\* one iteration and never over an existing session.
C12_ConnectOncePerIteration ==
    [][(pc = "loop" /\ pc' = "accept" /\ current_mode = "STA") =>
          tick'.mqttCalls =
             IF current_config.mqtt_broker # <<>> /\ mqtt_client = "None"
             THEN 1 ELSE 0]_vars

\* the step just taken was a publish_mqtt_status call whose
\* mqtt_client.publish raised
PublishFailed ==
    \E i \in 1..Len(calls) : calls[i].issued # <<>> /\ ~calls[i].delivered

\* C13: a step in which the broker refuses a connect or a publish fails in
\* transport does not lead to a reset (a callback that runs while a reset is
\* already pending leaves it as it is) and leaves the mode, config.json and
\* (past the boot-time load) the configuration as they were; after a
\* failed publish the session is absent and last_status is untouched, after
\* a refused connect the session is absent at boot and absent or recreated
\* by the same iteration's retry in the loop; and every station-mode
\* iteration that starts without a session and with a broker configured
\* attempts a connect.
C13_MqttFailureOnlyDropsSession ==
    [][/\ (boot'.refused \/ tick'.refused \/ PublishFailed') =>
             /\ (pc' # "reset" /\ resetCause' = "none")
                \/ (~boot'.fresh /\ pc' = pc /\ resetCause' = resetCause)
             /\ current_mode' = current_mode
             /\ configFile' = configFile
       /\ ((tick'.refused \/ PublishFailed') /\ ~boot'.fresh) =>
             current_config' = current_config
       /\ boot'.refused => mqtt_client' = "None"
       /\ tick'.refused => mqtt_client' \in {"None", "connected"}
       /\ PublishFailed' =>
             (mqtt_client' = "None" /\ last_status' = last_status)
       /\ (/\ pc = "loop" /\ pc' = "accept" /\ current_mode = "STA"
           /\ current_config.mqtt_broker # <<>> /\ mqtt_client = "None") =>
             tick'.mqttCalls >= 1]_vars

C13_Witness ==
    /\ tick.refused /\ tick.mqttCalls = 2 /\ mqtt_client = "None"
    /\ pc = "accept" /\ current_mode = "STA"

\* C14: a publish_status call whose publish fails in transport leaves the
\* session absent and last_status at its previous value, and when the next
\* call is unforced, is the first of a recreated session and sees the same
\* status, that call publishes the status.
C14_FailedPublishIsRepublished ==
    \A i \in 1..Len(calls) :
        (calls[i].issued # <<>> /\ ~calls[i].delivered) =>
            /\ calls[i].clientAfter = "None"
            /\ calls[i].lastAfter = calls[i].lastBefore
            /\ (/\ i < Len(calls)
                /\ calls[i + 1].first /\ calls[i + 1].session = "connected"
                /\ ~calls[i + 1].forced
                /\ calls[i + 1].status = calls[i].status) =>
                  Len(calls[i + 1].issued) = 1

\* C15: when the first line of an accepted request does not split into
\* method, path and version, nothing is sent to the client, the handler
\* returns and the connection is closed, the configuration, config.json and
\* the mode are as before, and the loop goes on to its next step without a
\* reset.
C15_MalformedLineIsDropped ==
    [][(http'.accepted /\ Len(Decode(http'.line).parts) # 3) =>
          /\ http'.sent = <<>> /\ ~http'.applied
          /\ pc' = "dns" /\ resetCause' = "none"
          /\ current_config' = current_config
          /\ configFile' = configFile
          /\ current_mode' = current_mode]_vars

C15_Witness ==
    /\ http.accepted /\ http.line = S_GET \o <<" ">> \o P_status
    /\ http.sent = <<>> /\ pc = "dns" /\ current_mode = "AP"

\* the request line of the exchange just handled unpacks into method, path
\* and version
WellFormed == http.accepted /\ Len(Decode(http.line).parts) = 3

\* C16: a request whose path is none of /, /status, /scan, /config, alone or
\* followed by "?", and whose sends all return, is answered in access-point
\* mode by one 302 whose Location is the address of the access-point
\* interface, whatever its method, and in station mode, when it is a GET, by
\* one 404.
C16_UnknownPathRedirectOr404 ==
    (WellFormed /\ http.complete /\ ~IsKnownPath(Decode(http.line).parts[2])) =>
        /\ current_mode = "AP" =>
             http.sent = <<Resp(302, "redirect",
                                [location |-> <<"h", "t", "t", "p", ":", "/", "/">> \o ApAddress])>>
        /\ (current_mode = "STA" /\ Decode(http.line).parts[1] = S_GET) =>
             http.sent = <<Resp(404, "not-found", <<>>)>>

\* DNS messages as RFC 1035 lays them out, positions counted from 1: a
\* 12-byte header (id, flags, QDCOUNT, ANCOUNT, NSCOUNT, ARCOUNT), the
\* questions (name, type, class), then the resource records (name, type,
\* class, ttl, rdlength, rdata)
U16(p, i) == p[i] * 256 + p[i + 1]

\* the position after the name that starts at position i: labels up to the
\* zero label, or up to a two-byte pointer; 0 when the message ends first
RECURSIVE NameEnd(_, _)
NameEnd(p, i) ==
    IF i > Len(p) THEN 0
    ELSE IF p[i] = 0 THEN i + 1
    ELSE IF p[i] >= 192 THEN (IF i + 1 > Len(p) THEN 0 ELSE i + 2)
    ELSE NameEnd(p, i + 1 + p[i])

\* the position after the first question, 0 when there is none
QuestionEnd(p) ==
    LET n == NameEnd(p, 13)
    IN  IF n = 0 \/ n + 3 > Len(p) THEN 0 ELSE n + 4

\* the position after the resource record that starts at position a
RecordEnd(p, a) ==
    LET n == NameEnd(p, a)
    IN  IF n = 0 \/ n + 9 > Len(p) THEN 0
        ELSE IF n + 10 + U16(p, n + 8) > Len(p) + 1 THEN 0
        ELSE n + 10 + U16(p, n + 8)

\* a well-formed query with one question of type A, class IN, no answer or
\* authority records, and nothing or one record in the additional section
IsAQuery(q) ==
    /\ Len(q) >= 12 /\ q[3] < 128
    /\ U16(q, 5) = 1 /\ U16(q, 7) = 0 /\ U16(q, 9) = 0
    /\ QuestionEnd(q) # 0
    /\ SubSeq(q, QuestionEnd(q) - 4, QuestionEnd(q) - 3) = T_A
    /\ SubSeq(q, QuestionEnd(q) - 2, QuestionEnd(q) - 1) = C_IN
    /\ \/ U16(q, 11) = 0 /\ QuestionEnd(q) = Len(q) + 1
       \/ U16(q, 11) = 1 /\ RecordEnd(q, QuestionEnd(q)) = Len(q) + 1

\* the octets of the addresses a DNSServer object is constructed with
Octets(ip_address) ==
    IF ip_address = ApAddress THEN <<192, 168, 4, 1>> ELSE <<10, 0, 0, 255>>

\* C17: to every well-formed A query the responder sends one reply, to the
\* query's sender, with the query's id and question, whose answer section
\* (the record after the question) is of type A, class IN and length 4 and
\* carries the octets of the address the responder was constructed with.
C17_DnsAnswersWithApAddress ==
    (dns.handled /\ dns.datagram.pending /\ IsAQuery(dns.datagram.data)) =>
        /\ Len(dns.sent) = 1
        /\ dns.sent[1].addr = dns.datagram.addr
        /\ LET q == dns.datagram.data
               r == dns.sent[1].data
               a == QuestionEnd(q)
               n == NameEnd(r, a)
           IN  /\ SubSeq(r, 1, 2) = SubSeq(q, 1, 2)
               /\ U16(r, 5) = 1
               /\ SubSeq(r, 13, a - 1) = SubSeq(q, 13, a - 1)
               /\ U16(r, 7) = 1
               /\ n # 0 /\ n + 9 <= Len(r)
               /\ SubSeq(r, n, n + 1) = T_A
               /\ SubSeq(r, n + 2, n + 3) = C_IN
               /\ U16(r, n + 8) = 4
               /\ SubSeq(r, n + 10, n + 13) = Octets(dns_ip_address)

\* C18: with the timer's callback free to run while connect_mqtt is under
\* way, every publish is issued on a handle whose connect() has completed,
\* and when connect_mqtt has just returned True mqtt_client is a connected
\* session.
C18_TimerDuringConnect ==
    /\ \A i \in 1..Len(calls) :
          calls[i].issued # <<>> => calls[i].session = "connected"
    /\ (sessionFresh /\ pc = "loop") => mqtt_client = "connected"

\* C19: a request with a well-formed request line whose sends all return is
\* answered by exactly one response, with status 200, 302 or 404, and in
\* station mode by a single 404 unless it is a GET to one of the known
\* paths.
C19_EveryRequestAnswered ==
    (WellFormed /\ http.complete) =>
        /\ http.sent # <<>>
        /\ http.sent[1].status \in {200, 302, 404}
        /\ \A i \in 2..Len(http.sent) : http.sent[i].status = 0
        /\ (/\ current_mode = "STA"
            /\ ~(/\ Decode(http.line).parts[1] = S_GET
                 /\ IsKnownPath(Decode(http.line).parts[2]))) =>
              http.sent = <<Resp(404, "not-found", <<>>)>>

\* C20: mqtt_port and mqtt_interval are integers in every state, and after
\* a submission is applied the configuration has the keys it had before;
\* an integer field whose submitted value does not parse is as before, and
\* every other submitted field of the configuration with a non-blank value
\* holds that value (stripped, or parsed for an integer field).
C20_KeysAndIntegersKept ==
    /\ current_config.mqtt_port \in Int
    /\ current_config.mqtt_interval \in Int
    /\ (http.accepted /\ http.applied) =>
          /\ DOMAIN current_config = DOMAIN http.before
          /\ \A i \in 1..Len(Decode(http.line).form) :
                LET key == Decode(http.line).form[i].key
                    value == Decode(http.line).form[i].value
                IN  \A k \in DOMAIN http.before :
                       (KeyChars[k] = key /\ Strip(value) # <<>>) =>
                          IF k \notin IntKeys
                          THEN current_config[k] = Strip(value)
                          ELSE IF ParseInt(value).ok
                          THEN current_config[k] = ParseInt(value).val
                          ELSE current_config[k] = http.before[k]

C20_Witness ==
    /\ http.accepted /\ http.applied /\ http.line = FormLine(Q_badint)
    /\ current_config.mqtt_interval = 5 /\ current_config.mqtt_port = 1883
    /\ current_config.mqtt_topic = <<"t">>
    /\ http.before.mqtt_topic # <<"t">>
    /\ current_config.ssid = S_nepiot

\* C21: a connection is accepted only in the accept step of an iteration,
\* which the accepting step leaves, so at most one per iteration; after the
\* step the connection is closed or the device is resetting because the
\* handler called machine.reset(); and whatever the handler met, a send that
\* raised included, the device is not on the fatal-error path.
C21_OneConnectionAlwaysClosed ==
    [][http'.accepted =>
          /\ pc = "accept" /\ pc' \in {"dns", "reset"}
          /\ http'.closed \/ (pc' = "reset" /\ resetCause' = "config")
          /\ resetCause' # "fatal"
          /\ ~http'.complete => (pc' = "dns" /\ http'.closed)]_vars

C21_Witness ==
    /\ http.accepted /\ ~http.complete /\ http.applied
    /\ http.closed /\ pc = "dns" /\ resetCause = "none"

\* C22: once a fault has escaped a supervisor iteration (or main), the next
\* thing that happens is the reboot: no publish, no HTTP exchange, no DNS
\* cycle and no further iteration comes before it.
C22_FatalThenReboot ==
    [][(pc = "reset" /\ resetCause \in {"fatal", "main"}) =>
          /\ pc' = "boot"
          /\ calls' = <<>> /\ ~http'.accepted /\ ~dns'.handled
          /\ tick' = NoTick]_vars

\* C23: a call of connect_wifi ends with the mode STA; with a blank SSID or
\* password it attempts nothing, polls nothing and returns False; otherwise
\* it polls once per second until the link is up, 20 times at most, and
\* returns True exactly when the link is up when polling ends.
C23_ConnectStationBounded ==
    tick.wifi.called =>
        /\ current_mode = "STA"
        /\ tick.wifi.polls <= 20
        /\ IF current_config.ssid = <<>> \/ current_config.password = <<>>
           THEN ~tick.wifi.attempted /\ tick.wifi.polls = 0 /\ ~tick.wifi.ok
           ELSE /\ tick.wifi.attempted
                /\ tick.wifi.polls =
                     IF tick.wifi.upAfter <= 20 THEN tick.wifi.upAfter ELSE 20
                /\ tick.wifi.ok <=> tick.wifi.upAfter <= tick.wifi.polls

C23_Witness ==
    /\ tick.wifi.called /\ tick.wifi.attempted
    /\ tick.wifi.upAfter = 21 /\ tick.wifi.polls = 20 /\ ~tick.wifi.ok
    /\ current_mode = "STA" /\ dns_server

\* ---- C24: the display module and functional behaviour ----

\* What a run of main() does that is visible from outside the device: the
\* mode it ends in, whether broker.connect was reached (connect_mqtt returned
\* rather than raised), the messages handed to the broker, and whether main
\* returned into the server loop or ended in the reset of main.py:390.
FunctionalBehaviour(r) ==
    [mode |-> r.mode,
     brokerReached |-> r.mqttCalls = 1 /\ (r.session \/ r.refused),
     published |-> IF r.session THEN r.call.issued ELSE <<>>,
     reboot |-> r.outcome = "fault"]

\* C24: whether the display module is available does not change functional
\* behaviour.  For the boot step: from the same config.json, with the same
\* MQTT library and the same network, broker, timer and pin events, main()
\* run with the display present and main() run with it absent end in the
\* same mode, reach the broker alike, publish the same messages and reboot
\* alike.
C24_DisplayDoesNotChangeBehaviour ==
    boot.fresh =>
        \A env \in BootEnvs :
            FunctionalBehaviour(main(configFile, TRUE, MQTT_AVAILABLE, env))
            = FunctionalBehaviour(main(configFile, FALSE, MQTT_AVAILABLE, env))

\* ---- C25: the confirmation and the stored configuration ----

\* the confirmation page of main.py:284 left the device in the exchange
\* just handled
ConfirmationSent ==
    /\ http.accepted /\ http.applied
    /\ \E i \in 1..Len(http.sent) : http.sent[i].kind = "saved"

\* C25: "Configuration Saved" is sent, and the reboot that follows is taken,
\* only if the new configuration was written to stable storage: after a
\* confirmed submission, and at the reboot a submission leads to, what
\* load_config will read from config.json at the next boot equals the
\* in-memory configuration.
C25_ConfirmedMeansStored ==
    (\/ ConfirmationSent
     \/ (http.applied /\ pc = "reset" /\ resetCause = "config")) =>
        load_config(configFile) = current_config

====
